---- MODULE Spec2Model ----
(***************************************************************************)
(* SDL_movie playback core: SDL_MoviePlayer (src/unnamed/part_000, the     *)
(* internal header) and its operations (src/src/SDL_movie_player.c).       *)
(*                                                                         *)
(* One player drives one bound movie.  The movie collaborator (cursor      *)
(* navigation, decode, time-base conversion) is declared in the internal   *)
(* header but implemented outside the two files; it is modelled at its     *)
(* interface.  SDL's audio stream / allocation calls are environment       *)
(* inputs: their success is chosen nondeterministically.                   *)
(***************************************************************************)
EXTENDS Integers, Sequences, FiniteSets, TLC

VARIABLES
    \* ---- SDL_MoviePlayer fields (part_000:129-153) ----
    paused, finished, video_playback, audio_playback,
    mov,                               \* the bound movie; 0 = no player
    last_frame_at_ticks,
    current_time,
    next_audio_frame_at,
    audio_buffer,                      \* TRUE iff the pointer is non-NULL
    audio_buffer_count,
    audio_buffer_capacity,
    bound_audio_device,
    output_audio_stream,               \* TRUE iff the pointer is non-NULL
    audio_output_samples_buffer_size,
    audio_output_samples_buffer_ms,
    next_video_frame_at,
    current_video_frame_surface,       \* 0 = NULL, else the format of the snapshot
    output_video_frame_texture,        \* 0 = NULL, else the format of the texture
    \* ---- SDL_Movie cursors of the bound movie (part_000:71-75) ----
    current_frame, current_audio_frame,
    \* ---- environment ----
    ticks,                             \* SDL_GetTicks()
    stream_state,                      \* the SDL_AudioStream object the pointer refers to
    stream_device,                     \* device that object is bound to, 0 = unbound
    \* ---- observation of the last call and of memory-safety events ----
    call,                              \* the last call, its inputs and what it did
    paused_at, resumed_at,             \* wall-clock reading of a pause / resume not yet followed by an advance
    heap_overrun,
    decoded_since_bind,                \* indexes of the frames decoded since the last bind, per track
    stale_stream_touched

playerVars == <<paused, finished, video_playback, audio_playback, mov,
                last_frame_at_ticks, current_time, next_audio_frame_at,
                audio_buffer, audio_buffer_count, audio_buffer_capacity,
                bound_audio_device, output_audio_stream,
                audio_output_samples_buffer_size, audio_output_samples_buffer_ms,
                next_video_frame_at, current_video_frame_surface,
                output_video_frame_texture>>

movieVars == <<current_frame, current_audio_frame>>

envVars == <<ticks, stream_state, stream_device>>

obsVars == <<call, paused_at, resumed_at, heap_overrun, decoded_since_bind,
             stale_stream_touched>>

vars == <<playerVars, movieVars, envVars, obsVars>>

(***************************************************************************)
(* Bounds of the model.                                                    *)
(***************************************************************************)
MaxTime == 123          \* the playback clock is not advanced beyond this
MaxTicks == 2           \* number of wall-clock steps
TickStep == 41          \* milliseconds of wall-clock per step
MaxAppend == 8          \* largest sample count handed to a direct append
MaxStaged == 9          \* no call is made that would stage beyond this count
MaxAllocFails == 1      \* allocation failures injected into one call

(***************************************************************************)
(* Program constants.                                                      *)
(***************************************************************************)
SDL_MOVIE_PLAYER_SOUND_PRELOAD_MS == 50
DefaultOutputBufferSize == 1024
\* 0xFFFFFFFFu, written as the same 32-bit pattern
SDL_AUDIO_DEVICE_DEFAULT_PLAYBACK == -1
NsPerMs == 1000000

SDL_MOVIE_PLAYER_UPDATE_NONE == {}
SDL_MOVIE_PLAYER_UPDATE_AUDIO == {"AUDIO"}
SDL_MOVIE_PLAYER_UPDATE_VIDEO == {"VIDEO"}
SDL_MOVIE_PLAYER_UPDATE_ERROR == {"ERROR"}

(***************************************************************************)
(* The movies a player can be bound to.  A movie is its frame index per    *)
(* track (timecodes in container ticks, non-decreasing), the sample count  *)
(* each audio frame decodes to, the codec delays, the audio spec, the      *)
(* timecode scale and the format of its live decode surface (0 = none).    *)
(*   1: video 0/40/80 ms, audio 0/50/100/150 ms, 20 ticks codec delay      *)
(*   2: video only, 2 ms per tick, frames at 0/40 ms, 10 ticks codec delay *)
(*   3: audio only                                                         *)
(*   4: video 0/100 ms, audio 0/30 ms (audio ends before video)            *)
(***************************************************************************)
Movies == {1, 2, 3, 4}

MovieDef(m) ==
    CASE m = 1 -> [video |-> TRUE, audio |-> TRUE,
                   video_timecodes |-> <<0, 40, 80>>,
                   audio_timecodes |-> <<0, 50, 100, 150>>,
                   audio_samples |-> <<3, 0, 3, 2>>,
                   video_codec_delay |-> 0, audio_codec_delay |-> 20,
                   freq |-> 2, channels |-> 2,
                   timecode_scale |-> 1000000, surface_format |-> 1]
      [] m = 2 -> [video |-> TRUE, audio |-> FALSE,
                   video_timecodes |-> <<0, 20>>,
                   audio_timecodes |-> <<>>,
                   audio_samples |-> <<>>,
                   video_codec_delay |-> 10, audio_codec_delay |-> 0,
                   freq |-> 0, channels |-> 0,
                   timecode_scale |-> 2000000, surface_format |-> 2]
      [] m = 4 -> [video |-> TRUE, audio |-> TRUE,
                   video_timecodes |-> <<0, 100>>,
                   audio_timecodes |-> <<0, 30>>,
                   audio_samples |-> <<2, 2>>,
                   video_codec_delay |-> 0, audio_codec_delay |-> 0,
                   freq |-> 2, channels |-> 1,
                   timecode_scale |-> 1000000, surface_format |-> 1]
      [] OTHER -> [video |-> FALSE, audio |-> TRUE,
                   video_timecodes |-> <<>>,
                   audio_timecodes |-> <<0, 60>>,
                   audio_samples |-> <<3, 3>>,
                   video_codec_delay |-> 0, audio_codec_delay |-> 0,
                   freq |-> 3, channels |-> 1,
                   timecode_scale |-> 1000000, surface_format |-> 0]

(***************************************************************************)
(* The audio devices of the environment: the hardware buffer size and the  *)
(* sample rate SDL_GetAudioDeviceFormat reports for each.  Device 2        *)
(* reports no buffer size.                                                 *)
(***************************************************************************)
Devices == {1, 2}

DeviceSampleFrames(dev) == IF dev = 1 THEN 3 ELSE 0

DeviceFreq(dev) == IF dev = 1 THEN 1000 ELSE 2000

(***************************************************************************)
(* Movie collaborator, declared in part_000:109-127 and in SDL_movie.h.    *)
(***************************************************************************)
SDLMovie_CanPlaybackVideo(m) == MovieDef(m).video

SDLMovie_CanPlaybackAudio(m) == MovieDef(m).audio

SDLMovie_TimecodeToMilliseconds(m, timecode) ==
    (timecode * MovieDef(m).timecode_scale) \div NsPerMs

SDLMovie_MatroskaTicksToMilliseconds(m, t) ==
    (t * MovieDef(m).timecode_scale) \div NsPerMs

SDLMovie_HasNextVideoFrame(m, cursor) == cursor < Len(MovieDef(m).video_timecodes)

SDLMovie_HasNextAudioFrame(m, cursor) == cursor < Len(MovieDef(m).audio_timecodes)

NoFrame == [null |-> TRUE, timecode |-> 0]

SDLMovie_GetCurrentCachedFrame(m, type, cursor) ==
    LET index == IF type = "VIDEO" THEN MovieDef(m).video_timecodes
                                   ELSE MovieDef(m).audio_timecodes
    IN IF cursor < Len(index)
       THEN [null |-> FALSE, timecode |-> index[cursor + 1]]
       ELSE NoFrame

\* samples_count of SDLMovie_GetAudioSamples after decoding the frame at cursor
SDLMovie_GetAudioSamples(m, cursor) == MovieDef(m).audio_samples[cursor + 1]

\* SDLMovie_SeekFrame(mov, 0): both cursors back to the first frame
SDLMovie_SeekFrame(frame) == [current_frame |-> frame, current_audio_frame |-> frame]

(***************************************************************************)
(* check_player                                                            *)
(***************************************************************************)
check_player == mov \in Movies

(***************************************************************************)
(* SDLMovie_AddAudioSamplesToPlayer on the staging buffer                  *)
(*   b = [buf, count, capacity, overrun, alloc_fails]                      *)
(* alloc_fails is the number of SDL_calloc calls that still fail.          *)
(* overrun records a write at an index >= capacity.                        *)
(***************************************************************************)
StagingCapacity_WithoutHardware(m, hw_size) ==
    MovieDef(m).freq * MovieDef(m).channels

StagingCapacity(m, hw_size) ==
    MovieDef(m).freq * MovieDef(m).channels + hw_size

NeedsRollback(b, count) == b.count + count > b.capacity

AddAudioSamplesToPlayer(b, samples_count) ==
    IF samples_count <= 0
    THEN b
    ELSE LET alloc == ~b.buf
             b1 == IF alloc
                   THEN [b EXCEPT !.capacity = StagingCapacity(mov, audio_output_samples_buffer_size),
                                  !.buf = (b.alloc_fails = 0),
                                  !.alloc_fails = IF @ > 0 THEN @ - 1 ELSE 0]
                   ELSE b
         IN IF ~b1.buf
            THEN b1
            ELSE LET start == IF NeedsRollback(b1, samples_count) THEN 0 ELSE b1.count
                 IN [b1 EXCEPT !.count = start + samples_count,
                               !.overrun = @ \/ (start + samples_count > b1.capacity)]

(***************************************************************************)
(* SDLMovie_UpdatePlayer, audio branch (lines 138-186).                    *)
(* The loop state s carries the audio cursor, the staging buffer, the      *)
(* decode calls issued so far in this call (attempts), the indexes of the  *)
(* frames decoded, the samples handed to the output stream, whether a      *)
(* destroyed stream was handed data, and whether a decode failed.          *)
(* fail_at = k > 0 makes the k-th SDLMovie_DecodeAudioFrame of the call    *)
(* fail.                                                                   *)
(***************************************************************************)
AudioFrameDue_NoPreload(m, cursor, preload_time) ==
    /\ SDLMovie_HasNextAudioFrame(m, cursor)
    /\ SDLMovie_TimecodeToMilliseconds(
           m, SDLMovie_GetCurrentCachedFrame(m, "AUDIO", cursor).timecode)
         < preload_time - SDL_MOVIE_PLAYER_SOUND_PRELOAD_MS

AudioFrameDue(m, cursor, preload_time) ==
    /\ SDLMovie_HasNextAudioFrame(m, cursor)
    /\ SDLMovie_TimecodeToMilliseconds(
           m, SDLMovie_GetCurrentCachedFrame(m, "AUDIO", cursor).timecode) < preload_time

StageDecodedAudio_NoDrain(s, samples_count) ==
    IF samples_count > 0
    THEN LET b == AddAudioSamplesToPlayer(s.b, samples_count)
         IN IF output_audio_stream
            THEN [s EXCEPT !.b = b,
                           !.put = @ + samples_count,
                           !.stale = @ \/ (stream_state = "destroyed")]
            ELSE [s EXCEPT !.b = b]
    ELSE s

StageDecodedAudio(s, samples_count) ==
    IF samples_count > 0
    THEN LET b == AddAudioSamplesToPlayer(s.b, samples_count)
         IN IF output_audio_stream
            THEN [s EXCEPT !.b = [b EXCEPT !.count = 0],
                           !.put = @ + samples_count,
                           !.stale = @ \/ (stream_state = "destroyed")]
            ELSE [s EXCEPT !.b = b]
    ELSE s

RECURSIVE AudioLoop(_, _, _)
AudioLoop(s, preload_time, fail_at) ==
    IF AudioFrameDue(mov, s.cursor, preload_time)
    THEN IF s.attempts + 1 = fail_at
         THEN [s EXCEPT !.attempts = @ + 1, !.error = TRUE]
         ELSE LET s1 == StageDecodedAudio(s, SDLMovie_GetAudioSamples(mov, s.cursor))
              IN AudioLoop([s1 EXCEPT !.attempts = @ + 1,
                                      !.decoded = Append(@, s.cursor),
                                      !.cursor = @ + 1],
                           preload_time, fail_at)
    ELSE s

AudioGate_NoTimeCheck(now) ==
    /\ audio_playback
    /\ SDLMovie_CanPlaybackAudio(mov)

AudioGate(now) ==
    /\ audio_playback
    /\ SDLMovie_CanPlaybackAudio(mov)
    /\ now >= next_audio_frame_at

AudioStart(alloc_fails) ==
    [cursor |-> current_audio_frame,
     b |-> [buf |-> audio_buffer, count |-> audio_buffer_count,
            capacity |-> audio_buffer_capacity, overrun |-> FALSE,
            alloc_fails |-> alloc_fails],
     attempts |-> 0, decoded |-> <<>>, put |-> 0, stale |-> FALSE,
     error |-> FALSE, ran |-> FALSE, next_at |-> next_audio_frame_at]

AudioPass(now, fail_at, alloc_fails) ==
    IF AudioGate(now)
    THEN LET s == AudioLoop(AudioStart(alloc_fails),
                            now + SDL_MOVIE_PLAYER_SOUND_PRELOAD_MS, fail_at)
             next_frame_to_play == SDLMovie_GetCurrentCachedFrame(mov, "AUDIO", s.cursor)
         IN IF s.error
            THEN [s EXCEPT !.ran = TRUE]
            ELSE [s EXCEPT !.ran = TRUE,
                           !.next_at = IF ~next_frame_to_play.null
                                       THEN SDLMovie_TimecodeToMilliseconds(
                                                mov, next_frame_to_play.timecode)
                                       ELSE @]
    ELSE AudioStart(alloc_fails)

(***************************************************************************)
(* SDLMovie_UpdatePlayer, video branch (lines 188-248).                    *)
(***************************************************************************)
VideoFrameDue_Strict(m, cursor, now) ==
    LET next_frame_to_play == SDLMovie_GetCurrentCachedFrame(m, "VIDEO", cursor)
    IN /\ SDLMovie_HasNextVideoFrame(m, cursor)
       /\ ~next_frame_to_play.null
       /\ SDLMovie_TimecodeToMilliseconds(m, next_frame_to_play.timecode) < now

VideoFrameDue(m, cursor, now) ==
    LET next_frame_to_play == SDLMovie_GetCurrentCachedFrame(m, "VIDEO", cursor)
    IN /\ SDLMovie_HasNextVideoFrame(m, cursor)
       /\ ~next_frame_to_play.null
       /\ SDLMovie_TimecodeToMilliseconds(m, next_frame_to_play.timecode) <= now

VideoLoop_SingleFrame(s, now, fail_at) ==
    IF VideoFrameDue(mov, s.cursor, now)
    THEN IF s.attempts + 1 = fail_at
         THEN [s EXCEPT !.attempts = @ + 1, !.error = TRUE]
         ELSE [s EXCEPT !.attempts = @ + 1,
                        !.decoded = Append(@, s.cursor),
                        !.cursor = @ + 1]
    ELSE s

RECURSIVE VideoLoop(_, _, _)
VideoLoop(s, now, fail_at) ==
    IF VideoFrameDue(mov, s.cursor, now)
    THEN IF s.attempts + 1 = fail_at
         THEN [s EXCEPT !.attempts = @ + 1, !.error = TRUE]
         ELSE VideoLoop([s EXCEPT !.attempts = @ + 1,
                                  !.decoded = Append(@, s.cursor),
                                  !.cursor = @ + 1],
                        now, fail_at)
    ELSE s

VideoGate(now) ==
    /\ video_playback
    /\ SDLMovie_CanPlaybackVideo(mov)
    /\ now >= next_video_frame_at

VideoStart ==
    [cursor |-> current_frame, attempts |-> 0, decoded |-> <<>>,
     error |-> FALSE, ran |-> FALSE, next_at |-> next_video_frame_at,
     surface |-> current_video_frame_surface, published |-> FALSE,
     texture_updated |-> FALSE, finished |-> finished]

FinishedAfterVideo_Always(cursor, was_finished) == TRUE

FinishedAfterVideo_Never(cursor, was_finished) == was_finished

\* lines 244-247: the video track decides whether the movie has ended
FinishedAfterVideo(cursor, was_finished) ==
    IF ~SDLMovie_HasNextVideoFrame(mov, cursor) THEN TRUE ELSE was_finished

VideoPass(now, fail_at) ==
    IF VideoGate(now)
    THEN LET s == VideoLoop(VideoStart, now, fail_at)
             next_frame_to_play == SDLMovie_GetCurrentCachedFrame(mov, "VIDEO", s.cursor)
         IN IF s.error
            THEN [s EXCEPT !.ran = TRUE]
            ELSE [s EXCEPT !.ran = TRUE,
                           \* SDL_DuplicateSurface / SDL_BlitSurface of the live surface
                           !.surface = IF @ = 0 THEN MovieDef(mov).surface_format ELSE @,
                           !.published = TRUE,
                           !.texture_updated = (output_video_frame_texture # 0),
                           !.next_at = IF ~next_frame_to_play.null
                                       THEN SDLMovie_TimecodeToMilliseconds(
                                                mov, next_frame_to_play.timecode)
                                       ELSE @,
                           !.finished = FinishedAfterVideo(s.cursor, @)]
    ELSE VideoStart

(***************************************************************************)
(* The record of a call: which operation, its argument, what it returned   *)
(* and what it did on the collaborators.                                   *)
(***************************************************************************)
NoCall ==
    [op |-> "create", arg |-> 0, result |-> {}, env |-> "ok",
     audio_attempts |-> 0, video_attempts |-> 0,
     audio_decoded |-> <<>>, video_decoded |-> <<>>,
     put |-> 0, published |-> FALSE, texture_updated |-> FALSE,
     time_passed |-> 0, pause_len |-> 0, decode_order |-> <<>>]

Called(op, arg, result, env) ==
    [NoCall EXCEPT !.op = op, !.arg = arg, !.result = result, !.env = env]

\* decoded_since_bind when nothing was decoded yet
NoDecodes == [audio |-> <<>>, video |-> <<>>]

\* the decode calls of one advance in the order they are issued: the audio
\* branch (lines 138-186) comes before the video branch (lines 188-248)
DecodeOrder_VideoFirst(a, v) ==
    [i \in 1 .. v.attempts |-> "VIDEO"] \o [i \in 1 .. a.attempts |-> "AUDIO"]

DecodeOrder(a, v) ==
    [i \in 1 .. a.attempts |-> "AUDIO"] \o [i \in 1 .. v.attempts |-> "VIDEO"]

\* paused_at, resumed_at: empty, or the one wall-clock reading taken at the call
NotObserving == {}

At(t) == {t}

ReadingOf(mark) == CHOOSE t \in mark : TRUE

PauseLen == IF paused_at # NotObserving /\ resumed_at # NotObserving
            THEN ReadingOf(resumed_at) - ReadingOf(paused_at) ELSE 0

(***************************************************************************)
(* SDLMovie_SetPlayerMovie (lines 54-83) and SDLMovie_CreatePlayer         *)
(* (lines 10-28).                                                          *)
(***************************************************************************)
CodecDelayStart_Zero(m, has_track, codec_delay) == 0

CodecDelayStart(m, has_track, codec_delay) ==
    IF has_track /\ codec_delay > 0
    THEN SDLMovie_MatroskaTicksToMilliseconds(m, codec_delay)
    ELSE 0

BindMovie(m) ==
    /\ mov' = m
    /\ current_time' = 0
    /\ finished' = FALSE
    /\ video_playback' = SDLMovie_CanPlaybackVideo(m)
    /\ audio_playback' = SDLMovie_CanPlaybackAudio(m)
    /\ current_frame' = SDLMovie_SeekFrame(0).current_frame
    /\ current_audio_frame' = SDLMovie_SeekFrame(0).current_audio_frame
    /\ next_audio_frame_at' =
           CodecDelayStart(m, MovieDef(m).audio, MovieDef(m).audio_codec_delay)
    /\ next_video_frame_at' =
           CodecDelayStart(m, MovieDef(m).video, MovieDef(m).video_codec_delay)

Init ==
    /\ \E m \in Movies :
          /\ mov = m
          /\ video_playback = SDLMovie_CanPlaybackVideo(m)
          /\ audio_playback = SDLMovie_CanPlaybackAudio(m)
          /\ next_audio_frame_at =
                 CodecDelayStart(m, MovieDef(m).audio, MovieDef(m).audio_codec_delay)
          /\ next_video_frame_at =
                 CodecDelayStart(m, MovieDef(m).video, MovieDef(m).video_codec_delay)
    /\ current_time = 0
    /\ finished = FALSE
    /\ paused = FALSE
    /\ current_frame = 0
    /\ current_audio_frame = 0
    /\ ticks = 0
    /\ last_frame_at_ticks = 0
    /\ audio_buffer = FALSE
    /\ audio_buffer_count = 0
    /\ audio_buffer_capacity = 0
    /\ bound_audio_device = 0
    /\ output_audio_stream = FALSE
    /\ audio_output_samples_buffer_size = 0
    /\ audio_output_samples_buffer_ms = 0
    /\ current_video_frame_surface = 0
    /\ output_video_frame_texture = 0
    /\ stream_state = "none"
    /\ stream_device = 0
    /\ call = NoCall
    /\ paused_at = NotObserving
    /\ resumed_at = NotObserving
    /\ heap_overrun = FALSE
    /\ decoded_since_bind = NoDecodes
    /\ stale_stream_touched = FALSE

SDLMovie_SetPlayerMovie(m) ==
    /\ check_player
    /\ BindMovie(m)
    /\ call' = Called("bind", m, {}, "ok")
    /\ decoded_since_bind' = NoDecodes
    /\ UNCHANGED <<paused, last_frame_at_ticks, audio_buffer, audio_buffer_count,
                   audio_buffer_capacity, bound_audio_device, output_audio_stream,
                   audio_output_samples_buffer_size, audio_output_samples_buffer_ms,
                   current_video_frame_surface, output_video_frame_texture,
                   envVars, paused_at, resumed_at, heap_overrun, stale_stream_touched>>

(***************************************************************************)
(* SDLMovie_UpdatePlayer (lines 106-251).                                  *)
(***************************************************************************)
Deltas == {-1, 0, 41}

IsNoOp_ZeroProceeds(time_delta_ms) == paused \/ finished

IsNoOp_PausedProceeds(time_delta_ms) == time_delta_ms = 0 \/ finished

IsNoOp_FinishedProceeds(time_delta_ms) == time_delta_ms = 0 \/ paused

IsNoOp(time_delta_ms) == time_delta_ms = 0 \/ paused \/ finished

TimePassed_AlwaysAuto(time_delta_ms) == ticks - last_frame_at_ticks

TimePassed(time_delta_ms) ==
    IF time_delta_ms < 0 THEN ticks - last_frame_at_ticks ELSE time_delta_ms

\* a failed audio decode returns before the video branch (line 155)
VideoAfterAudio_NoAbort(a, now, vfail) == VideoPass(now, vfail)

VideoAfterAudio(a, now, vfail) ==
    IF a.error THEN VideoStart ELSE VideoPass(now, vfail)

UpdateResult_AudioOnlyWhenDecoded(a, v) ==
    IF a.error \/ v.error
    THEN SDL_MOVIE_PLAYER_UPDATE_ERROR
    ELSE (IF a.ran /\ a.attempts > 0
          THEN SDL_MOVIE_PLAYER_UPDATE_AUDIO ELSE SDL_MOVIE_PLAYER_UPDATE_NONE)
         \cup (IF v.ran THEN SDL_MOVIE_PLAYER_UPDATE_VIDEO ELSE SDL_MOVIE_PLAYER_UPDATE_NONE)

UpdateResult(a, v) ==
    IF a.error \/ v.error
    THEN SDL_MOVIE_PLAYER_UPDATE_ERROR
    ELSE (IF a.ran THEN SDL_MOVIE_PLAYER_UPDATE_AUDIO ELSE SDL_MOVIE_PLAYER_UPDATE_NONE)
         \cup (IF v.ran THEN SDL_MOVIE_PLAYER_UPDATE_VIDEO ELSE SDL_MOVIE_PLAYER_UPDATE_NONE)

SDLMovie_UpdatePlayer(time_delta_ms, afail, vfail, alloc_fails) ==
    /\ check_player
    /\ IF IsNoOp(time_delta_ms)
       THEN /\ call' = Called("update", time_delta_ms, SDL_MOVIE_PLAYER_UPDATE_NONE, "ok")
            /\ UNCHANGED <<playerVars, movieVars, envVars, paused_at, resumed_at,
                           heap_overrun, decoded_since_bind, stale_stream_touched>>
       ELSE \E now \in {current_time + TimePassed(time_delta_ms)} :
            \E a \in {AudioPass(now, afail, alloc_fails)} :
            \E v \in {VideoAfterAudio(a, now, vfail)} :
               /\ now <= MaxTime
               /\ a.b.count <= MaxStaged
               /\ current_time' = now
               /\ last_frame_at_ticks' = ticks
               /\ current_audio_frame' = a.cursor
               /\ audio_buffer' = a.b.buf
               /\ audio_buffer_count' = a.b.count
               /\ audio_buffer_capacity' = a.b.capacity
               /\ next_audio_frame_at' = a.next_at
               /\ current_frame' = v.cursor
               /\ current_video_frame_surface' = v.surface
               /\ next_video_frame_at' = v.next_at
               /\ finished' = v.finished
               /\ heap_overrun' = (heap_overrun \/ a.b.overrun)
               /\ decoded_since_bind' =
                      [audio |-> decoded_since_bind.audio \o a.decoded,
                       video |-> decoded_since_bind.video \o v.decoded]
               /\ stale_stream_touched' = (stale_stream_touched \/ a.stale)
               /\ paused_at' = NotObserving
               /\ resumed_at' = NotObserving
               /\ call' = [Called("update", time_delta_ms, UpdateResult(a, v),
                                  IF a.error THEN "audio_decode"
                                  ELSE IF v.error THEN "video_decode"
                                  ELSE IF a.b.alloc_fails < alloc_fails THEN "alloc"
                                  ELSE "ok")
                             EXCEPT !.audio_attempts = a.attempts,
                                    !.video_attempts = v.attempts,
                                    !.audio_decoded = a.decoded,
                                    !.video_decoded = v.decoded,
                                    !.put = a.put,
                                    !.published = v.published,
                                    !.texture_updated = v.texture_updated,
                                    !.time_passed = now - current_time,
                                    !.pause_len = PauseLen,
                                    !.decode_order = DecodeOrder(a, v)]
               /\ UNCHANGED <<paused, video_playback, audio_playback, mov,
                              bound_audio_device, output_audio_stream,
                              audio_output_samples_buffer_size,
                              audio_output_samples_buffer_ms,
                              output_video_frame_texture, envVars>>

(***************************************************************************)
(* SDLMovie_AddAudioSamplesToPlayer called on its own (lines 253-290).     *)
(***************************************************************************)
AppendCounts == {1, 3, MaxAppend}

AddAudioSamples(count, alloc_fails) ==
    /\ check_player
    /\ LET b == AddAudioSamplesToPlayer(
                    [buf |-> audio_buffer, count |-> audio_buffer_count,
                     capacity |-> audio_buffer_capacity, overrun |-> FALSE,
                     alloc_fails |-> alloc_fails], count)
       IN /\ b.count <= MaxStaged
          /\ audio_buffer' = b.buf
          /\ audio_buffer_count' = b.count
          /\ audio_buffer_capacity' = b.capacity
          /\ heap_overrun' = (heap_overrun \/ b.overrun)
          /\ call' = Called("append", count, {}, IF alloc_fails > 0 THEN "alloc" ELSE "ok")
    /\ UNCHANGED <<paused, finished, video_playback, audio_playback, mov,
                   last_frame_at_ticks, current_time, next_audio_frame_at,
                   bound_audio_device, output_audio_stream,
                   audio_output_samples_buffer_size, audio_output_samples_buffer_ms,
                   next_video_frame_at, current_video_frame_surface,
                   output_video_frame_texture, movieVars, envVars,
                   paused_at, resumed_at, stale_stream_touched, decoded_since_bind>>

(***************************************************************************)
(* SDLMovie_SetPlayerAudioOutput (lines 292-351).                          *)
(* env names the SDL call that fails: "format" (SDL_GetAudioDeviceFormat), *)
(* "create" (SDL_CreateAudioStream), "bind" (SDL_BindAudioStream), or "ok".*)
(* s = [stream, device, size, ms, state, bound, stale, ok]                 *)
(***************************************************************************)
AttachEnv == {"ok", "format", "create", "bind"}

AttachRejected_NoTrackCheck(dev) == dev = SDL_AUDIO_DEVICE_DEFAULT_PLAYBACK

AttachRejected(dev) ==
    \/ dev = SDL_AUDIO_DEVICE_DEFAULT_PLAYBACK
    \/ ~SDLMovie_CanPlaybackAudio(mov)

AttachStart ==
    [stream |-> output_audio_stream, device |-> bound_audio_device,
     size |-> audio_output_samples_buffer_size,
     ms |-> audio_output_samples_buffer_ms,
     state |-> stream_state, bound |-> stream_device,
     stale |-> FALSE, ok |-> FALSE]

\* lines 307-312: SDL_DestroyAudioStream on the held stream, then forget it
TeardownStream(s) ==
    IF s.stream
    THEN [s EXCEPT !.stale = (s.state = "destroyed"),
                   !.stream = FALSE, !.device = 0,
                   !.state = "none", !.bound = 0]
    ELSE s

\* lines 326-332
OutputBufferSize(dev) ==
    IF DeviceSampleFrames(dev) = 0 THEN DefaultOutputBufferSize
    ELSE DeviceSampleFrames(dev)

\* lines 342-346: the stream is destroyed; the player's pointer is left as it is
BindFailed(s) == [s EXCEPT !.stream = TRUE, !.state = "destroyed", !.bound = 0]

EstablishStream(s, dev, env) ==
    IF dev = 0
    THEN [s EXCEPT !.ok = TRUE]
    ELSE IF env = "format"
    THEN s
    ELSE LET s1 == [s EXCEPT !.size = OutputBufferSize(dev),
                             !.ms = (OutputBufferSize(dev) * 1000) \div DeviceFreq(dev)]
         IN IF env = "create"
            THEN [s1 EXCEPT !.stream = FALSE]
            ELSE IF env = "bind"
            THEN BindFailed(s1)
            ELSE [s1 EXCEPT !.stream = TRUE, !.state = "alive", !.bound = dev,
                            !.device = dev, !.ok = TRUE]

SDLMovie_SetPlayerAudioOutput(dev, env) ==
    /\ check_player
    /\ LET s == IF AttachRejected(dev) THEN AttachStart
                ELSE EstablishStream(TeardownStream(AttachStart), dev, env)
       IN /\ output_audio_stream' = s.stream
          /\ bound_audio_device' = s.device
          /\ audio_output_samples_buffer_size' = s.size
          /\ audio_output_samples_buffer_ms' = s.ms
          /\ stream_state' = s.state
          /\ stream_device' = s.bound
          /\ stale_stream_touched' = (stale_stream_touched \/ s.stale)
          /\ call' = Called("attach_audio", dev,
                            IF s.ok THEN {"OK"} ELSE {"FAIL"},
                            IF AttachRejected(dev) THEN "rejected" ELSE env)
    /\ UNCHANGED <<paused, finished, video_playback, audio_playback, mov,
                   last_frame_at_ticks, current_time, next_audio_frame_at,
                   audio_buffer, audio_buffer_count, audio_buffer_capacity,
                   next_video_frame_at, current_video_frame_surface,
                   output_video_frame_texture, movieVars, ticks,
                   paused_at, resumed_at, heap_overrun, decoded_since_bind>>

(***************************************************************************)
(* SDLMovie_GetPlayerAvailableAudioSamples (lines 353-367): the staging    *)
(* buffer and the count written through the count pointer; without a       *)
(* buffer the call returns NULL and writes no count.                       *)
(***************************************************************************)
SDLMovie_GetPlayerAvailableAudioSamples ==
    IF check_player /\ audio_buffer
    THEN [samples |-> TRUE, count |-> {audio_buffer_count}]
    ELSE [samples |-> FALSE, count |-> {}]

PollAudio ==
    /\ check_player
    /\ call' = Called("poll", 0, SDLMovie_GetPlayerAvailableAudioSamples.count,
                      IF SDLMovie_GetPlayerAvailableAudioSamples.samples
                      THEN "ok" ELSE "null")
    /\ UNCHANGED <<playerVars, movieVars, envVars, paused_at, resumed_at,
                   heap_overrun, decoded_since_bind, stale_stream_touched>>

(***************************************************************************)
(* SDLMovie_PausePlayer (lines 369-380), SDLMovie_ResumePlayer (382-394).  *)
(***************************************************************************)
SDLMovie_PausePlayer ==
    /\ check_player
    /\ paused' = TRUE
    /\ IF output_audio_stream
       THEN /\ stream_device' = 0
            /\ stale_stream_touched' = (stale_stream_touched \/ stream_state = "destroyed")
       ELSE UNCHANGED <<stream_device, stale_stream_touched>>
    /\ paused_at' = IF paused THEN paused_at ELSE At(ticks)
    /\ resumed_at' = IF paused THEN resumed_at ELSE NotObserving
    /\ call' = Called("pause", 0, {}, "ok")
    /\ UNCHANGED <<finished, video_playback, audio_playback, mov,
                   last_frame_at_ticks, current_time, next_audio_frame_at,
                   audio_buffer, audio_buffer_count, audio_buffer_capacity,
                   bound_audio_device, output_audio_stream,
                   audio_output_samples_buffer_size, audio_output_samples_buffer_ms,
                   next_video_frame_at, current_video_frame_surface,
                   output_video_frame_texture, movieVars, ticks, stream_state,
                   heap_overrun, decoded_since_bind>>

ResumeTickMark_NotReset == last_frame_at_ticks

ResumeTickMark == ticks

\* bind_ok: whether SDL_BindAudioStream succeeds; its result is not looked at
SDLMovie_ResumePlayer(bind_ok) ==
    /\ check_player
    /\ paused' = FALSE
    /\ last_frame_at_ticks' = ResumeTickMark
    /\ IF output_audio_stream
       THEN /\ stream_device' = IF stream_state = "alive" /\ stream_device = 0 /\ bind_ok
                                THEN bound_audio_device ELSE stream_device
            /\ stale_stream_touched' = (stale_stream_touched \/ stream_state = "destroyed")
       ELSE UNCHANGED <<stream_device, stale_stream_touched>>
    /\ resumed_at' = At(ticks)
    /\ call' = Called("resume", 0, {}, IF bind_ok THEN "ok" ELSE "bind")
    /\ UNCHANGED <<finished, video_playback, audio_playback, mov,
                   current_time, next_audio_frame_at,
                   audio_buffer, audio_buffer_count, audio_buffer_capacity,
                   bound_audio_device, output_audio_stream,
                   audio_output_samples_buffer_size, audio_output_samples_buffer_ms,
                   next_video_frame_at, current_video_frame_surface,
                   output_video_frame_texture, movieVars, ticks, stream_state,
                   paused_at, heap_overrun, decoded_since_bind>>

(***************************************************************************)
(* SDLMovie_SetPlayerVideoOutputTexture (lines 420-446).  A texture is     *)
(* its pixel format; 0 is NULL.                                            *)
(***************************************************************************)
Textures == {0, 1, 2}

TextureRejected(texture) ==
    /\ texture # 0
    /\ \/ MovieDef(mov).surface_format = 0
       \/ texture # MovieDef(mov).surface_format

SDLMovie_SetPlayerVideoOutputTexture(texture) ==
    /\ check_player
    /\ output_video_frame_texture' =
           IF TextureRejected(texture) THEN output_video_frame_texture ELSE texture
    /\ call' = Called("attach_texture", texture,
                      IF TextureRejected(texture) THEN {"FAIL"} ELSE {"OK"},
                      IF TextureRejected(texture) THEN "rejected" ELSE "ok")
    /\ UNCHANGED <<paused, finished, video_playback, audio_playback, mov,
                   last_frame_at_ticks, current_time, next_audio_frame_at,
                   audio_buffer, audio_buffer_count, audio_buffer_capacity,
                   bound_audio_device, output_audio_stream,
                   audio_output_samples_buffer_size, audio_output_samples_buffer_ms,
                   next_video_frame_at, current_video_frame_surface,
                   movieVars, envVars, paused_at, resumed_at,
                   heap_overrun, decoded_since_bind, stale_stream_touched>>

(***************************************************************************)
(* SDLMovie_SetPlayerAudioEnabled / SDLMovie_SetPlayerVideoEnabled         *)
(* (lines 481-505).                                                        *)
(***************************************************************************)
AudioEnabledAfter_NoTrackCheck(enabled) == enabled

\* lines 486-491: without a playable audio track the call returns at once
AudioEnabledAfter(enabled) ==
    IF SDLMovie_CanPlaybackAudio(mov) THEN enabled ELSE audio_playback

\* lines 499-504
VideoEnabledAfter(enabled) ==
    IF SDLMovie_CanPlaybackVideo(mov) THEN enabled ELSE video_playback

SDLMovie_SetPlayerAudioEnabled(enabled) ==
    /\ check_player
    /\ audio_playback' = AudioEnabledAfter(enabled)
    /\ call' = Called("enable_audio", IF enabled THEN 1 ELSE 0, {}, "ok")
    /\ UNCHANGED <<paused, finished, video_playback, mov,
                   last_frame_at_ticks, current_time, next_audio_frame_at,
                   audio_buffer, audio_buffer_count, audio_buffer_capacity,
                   bound_audio_device, output_audio_stream,
                   audio_output_samples_buffer_size, audio_output_samples_buffer_ms,
                   next_video_frame_at, current_video_frame_surface,
                   output_video_frame_texture, movieVars, envVars,
                   paused_at, resumed_at, heap_overrun, decoded_since_bind, stale_stream_touched>>

SDLMovie_SetPlayerVideoEnabled(enabled) ==
    /\ check_player
    /\ video_playback' = VideoEnabledAfter(enabled)
    /\ call' = Called("enable_video", IF enabled THEN 1 ELSE 0, {}, "ok")
    /\ UNCHANGED <<paused, finished, audio_playback, mov,
                   last_frame_at_ticks, current_time, next_audio_frame_at,
                   audio_buffer, audio_buffer_count, audio_buffer_capacity,
                   bound_audio_device, output_audio_stream,
                   audio_output_samples_buffer_size, audio_output_samples_buffer_ms,
                   next_video_frame_at, current_video_frame_surface,
                   output_video_frame_texture, movieVars, envVars,
                   paused_at, resumed_at, heap_overrun, decoded_since_bind, stale_stream_touched>>

(***************************************************************************)
(* SDLMovie_FreePlayer (lines 85-104): the buffer, the stream and the      *)
(* snapshot are released with the player; no field outlives the call.      *)
(***************************************************************************)
SDLMovie_FreePlayer ==
    /\ check_player
    /\ stale_stream_touched' =
           (stale_stream_touched \/ (output_audio_stream /\ stream_state = "destroyed"))
    /\ mov' = 0
    /\ paused' = FALSE /\ finished' = FALSE
    /\ video_playback' = FALSE /\ audio_playback' = FALSE
    /\ last_frame_at_ticks' = 0 /\ current_time' = 0
    /\ next_audio_frame_at' = 0 /\ next_video_frame_at' = 0
    /\ audio_buffer' = FALSE /\ audio_buffer_count' = 0 /\ audio_buffer_capacity' = 0
    /\ bound_audio_device' = 0 /\ output_audio_stream' = FALSE
    /\ audio_output_samples_buffer_size' = 0 /\ audio_output_samples_buffer_ms' = 0
    /\ current_video_frame_surface' = 0 /\ output_video_frame_texture' = 0
    /\ current_frame' = 0 /\ current_audio_frame' = 0
    /\ stream_state' = "none" /\ stream_device' = 0
    /\ paused_at' = NotObserving /\ resumed_at' = NotObserving
    /\ call' = Called("free", 0, {}, "ok")
    /\ decoded_since_bind' = NoDecodes
    /\ UNCHANGED <<ticks, heap_overrun>>

(***************************************************************************)
(* The wall clock SDL_GetTicks() reads.                                    *)
(***************************************************************************)
Tick ==
    /\ check_player
    /\ ticks + TickStep <= MaxTicks * TickStep
    /\ ticks' = ticks + TickStep
    /\ call' = Called("tick", 0, {}, "ok")
    /\ UNCHANGED <<playerVars, movieVars, stream_state, stream_device,
                   paused_at, resumed_at, heap_overrun, decoded_since_bind, stale_stream_touched>>

(***************************************************************************)
(* Inputs of an advance: the delta, and which decode call of the call, if  *)
(* any, fails (<<k, 0>>: the k-th audio decode, <<0, k>>: the k-th video   *)
(* decode; a call ends at its first failure).                              *)
(***************************************************************************)
NoFailure == {<<0, 0>>}

DecodeFailures == {<<k, 0>> : k \in 1 .. 2} \cup {<<0, k>> : k \in 1 .. 2}

Advance(deltas, failures, allocs) ==
    \E d \in deltas, f \in failures, alloc_fails \in allocs :
        SDLMovie_UpdatePlayer(d, f[1], f[2], alloc_fails)

Rebind == \E m \in Movies : SDLMovie_SetPlayerMovie(m)

DirectAppend == \E count \in AppendCounts, alloc_fails \in 0 .. MaxAllocFails :
              AddAudioSamples(count, alloc_fails)

AttachArgs == Devices \cup {0, SDL_AUDIO_DEVICE_DEFAULT_PLAYBACK}

AttachAudio(devs, envs) ==
    \E dev \in devs, env \in envs :
        SDLMovie_SetPlayerAudioOutput(dev, env)

Pause == SDLMovie_PausePlayer

Resume(binds) == \E bind_ok \in binds : SDLMovie_ResumePlayer(bind_ok)

AttachTexture == \E texture \in Textures : SDLMovie_SetPlayerVideoOutputTexture(texture)

EnableAudio == \E enabled \in BOOLEAN : SDLMovie_SetPlayerAudioEnabled(enabled)

EnableVideo == \E enabled \in BOOLEAN : SDLMovie_SetPlayerVideoEnabled(enabled)

Free == SDLMovie_FreePlayer

(***************************************************************************)
(* The whole interface.                                                    *)
(***************************************************************************)
Next ==
    \/ Advance(Deltas, NoFailure \cup DecodeFailures, 0 .. MaxAllocFails)
    \/ Rebind
    \/ DirectAppend
    \/ AttachAudio(AttachArgs, AttachEnv)
    \/ Pause
    \/ Resume(BOOLEAN)
    \/ AttachTexture
    \/ EnableAudio
    \/ EnableVideo
    \/ Free
    \/ Tick
    \/ PollAudio

Spec == Init /\ [][Next]_vars

(***************************************************************************)
(* Pacing: advance with literal deltas and decode failures, pause/resume,  *)
(* per-track enabling and rebinding.                                       *)
(***************************************************************************)
NextPacing ==
    \/ Advance(Deltas, NoFailure \cup DecodeFailures, {0})
    \/ Rebind
    \/ Pause
    \/ Resume({TRUE})
    \/ EnableAudio
    \/ EnableVideo

SpecPacing == Init /\ [][NextPacing]_vars

(***************************************************************************)
(* Wall clock: auto-delta advances against SDL_GetTicks().                 *)
(***************************************************************************)
NextClock ==
    \/ Advance(Deltas, NoFailure, {0})
    \/ Pause
    \/ Resume({TRUE})
    \/ Tick

SpecClock == Init /\ [][NextClock]_vars

(***************************************************************************)
(* Audio output: attaching and detaching devices with failing SDL calls.   *)
(***************************************************************************)
NextAudioOut ==
    \/ Advance({41}, NoFailure, {0})
    \/ AttachAudio(AttachArgs, AttachEnv)
    \/ Pause
    \/ Resume(BOOLEAN)
    \/ Free

SpecAudioOut == Init /\ [][NextAudioOut]_vars

(***************************************************************************)
(* Staging: appends of any count, allocation failures, attach order.       *)
(***************************************************************************)
NextStaging ==
    \/ Advance({41}, NoFailure, 0 .. MaxAllocFails)
    \/ DirectAppend
    \/ AttachAudio(AttachArgs, {"ok"})
    \/ Rebind
    \/ PollAudio

SpecStaging == Init /\ [][NextStaging]_vars

(***************************************************************************)
(* Lifecycle: advance, pause/resume, enabling, attaching and detaching a   *)
(* device, and restarting the movie (binding the bound movie again), all   *)
(* SDL calls succeeding.                                                   *)
(***************************************************************************)
Restart == SDLMovie_SetPlayerMovie(mov)

NextLifecycle ==
    \/ Advance(Deltas, NoFailure, {0})
    \/ Restart
    \/ Pause
    \/ Resume({TRUE})
    \/ EnableAudio
    \/ EnableVideo
    \/ AttachAudio({0, 1}, {"ok"})

SpecLifecycle == Init /\ [][NextLifecycle]_vars

(***************************************************************************)
(* Outputs: attaching devices and render targets across rebinds.           *)
(***************************************************************************)
NextOutputs ==
    \/ Advance(Deltas, NoFailure, {0})
    \/ Rebind
    \/ AttachAudio(AttachArgs, {"ok"})
    \/ AttachTexture

SpecOutputs == Init /\ [][NextOutputs]_vars

(***************************************************************************)
(* Scenario: a player advanced in literal 41 ms steps from a bind, with    *)
(* outputs attached along the way.  The clock counts the steps.            *)
(***************************************************************************)
NextScenario ==
    \/ Advance({41}, NoFailure, {0})
    \/ Rebind
    \/ AttachTexture
    \/ AttachAudio({0, 1}, {"ok"})

SpecScenario == Init /\ [][NextScenario]_vars

(***************************************************************************)
(* Playback: the caller keeps advancing by a literal 41 ms, decodes        *)
(* succeed, and the player may be paused, resumed and have its video       *)
(* playback switched in between.  The advance is called again and again.   *)
(***************************************************************************)
KeepAdvancing == Advance({41}, NoFailure, {0})

NextPlayback ==
    \/ KeepAdvancing
    \/ Pause
    \/ Resume({TRUE})
    \/ EnableVideo

SpecPlayback == Init /\ [][NextPlayback]_vars /\ WF_vars(KeepAdvancing)

(***************************************************************************)
(*                              PROPERTIES                                 *)
(***************************************************************************)
Unchanged == UNCHANGED <<playerVars, movieVars, envVars>>

NoDecodeIn(c) == c.audio_attempts = 0 /\ c.video_attempts = 0

\* C1: every advance(0) returns NONE and leaves the player, the movie cursors
\* and the stream untouched, issuing no decode.
C1_AdvanceZeroIsNoOp ==
    [][(call'.op = "update" /\ call'.arg = 0)
         => /\ call'.result = SDL_MOVIE_PLAYER_UPDATE_NONE
            /\ NoDecodeIn(call')
            /\ Unchanged]_vars

C1_Witness ==
    /\ call.op = "update" /\ call.arg = 0
    /\ ~paused /\ ~finished
    /\ current_time > 0
    /\ current_time >= next_video_frame_at
    /\ video_playback

\* C2: while paused, an advance with any delta returns NONE, issues no decode
\* and changes nothing; the clock keeps its value over every call made while
\* paused, the resume included (binding a movie is a reset, not an advance).
C2_PausedAdvanceIsNoOp ==
    [][paused
         => /\ call'.op = "update"
                => /\ call'.result = SDL_MOVIE_PLAYER_UPDATE_NONE
                   /\ NoDecodeIn(call')
                   /\ Unchanged
            /\ call'.op \notin {"bind", "free"} => current_time' = current_time]_vars

C2_Witness ==
    /\ call.op = "update" /\ call.arg = 41
    /\ paused /\ ~finished
    /\ current_time > 0
    /\ current_time + call.arg >= next_video_frame_at
    /\ video_playback

\* C3: an advance(d), d > 0, on a player neither paused nor finished moves the
\* clock by exactly d whatever it returns; no call other than a bind ever
\* moves the clock backwards.
C3_ClockAdvancesByDelta ==
    [][/\ (call'.op = "update" /\ call'.arg > 0 /\ ~paused /\ ~finished)
            => current_time' = current_time + call'.arg
       /\ call'.op \notin {"bind", "free"} => current_time' >= current_time]_vars

C3_Witness ==
    /\ call.op = "update" /\ call.arg = 41
    /\ call.result = SDL_MOVIE_PLAYER_UPDATE_ERROR
    /\ current_time = 82

\* C4: once finished, every advance returns NONE, decodes nothing and changes
\* nothing; finished survives every call except a bind, and a bind clears it.
C4_FinishedIsOneWay ==
    [][/\ finished
            => /\ call'.op = "update"
                   => /\ call'.result = SDL_MOVIE_PLAYER_UPDATE_NONE
                      /\ NoDecodeIn(call')
                      /\ Unchanged
               /\ call'.op \notin {"bind", "free"} => finished'
       /\ call'.op = "bind" => ~finished']_vars

C4_Witness ==
    /\ finished /\ ~paused
    /\ call.op = "update" /\ call.arg = 41
    /\ call.result = SDL_MOVIE_PLAYER_UPDATE_NONE
    /\ output_audio_stream

\* C5: a failed decode makes the advance return ERROR at once.  After a failed
\* audio decode the video branch has not run: no video decode, no picture, the
\* video cursor, next_video_frame_at and finished as before.  After a failed
\* video decode the audio side is what the audio branch alone leaves behind.
\* In both cases the clock has advanced and the frames decoded before the
\* failure stay consumed.
C5_ErrorKeepsProgress ==
    [][(call'.op = "update" /\ call'.result = SDL_MOVIE_PLAYER_UPDATE_ERROR)
         => /\ call'.arg > 0 => current_time' = current_time + call'.arg
            /\ ~call'.published /\ ~call'.texture_updated
            /\ finished' = finished
            /\ next_video_frame_at' = next_video_frame_at
            /\ current_video_frame_surface' = current_video_frame_surface
            /\ current_audio_frame' = current_audio_frame + Len(call'.audio_decoded)
            /\ current_frame' = current_frame + Len(call'.video_decoded)
            /\ call'.env = "audio_decode"
                 => /\ call'.audio_attempts = Len(call'.audio_decoded) + 1
                    /\ call'.video_attempts = 0
                    /\ next_audio_frame_at' = next_audio_frame_at
            /\ call'.env = "video_decode"
                 => /\ call'.video_attempts = Len(call'.video_decoded) + 1
                    /\ call'.audio_attempts = Len(call'.audio_decoded)
                    /\ \A i \in 1 .. Len(call'.audio_decoded) :
                         call'.audio_decoded[i] = current_audio_frame + i - 1
                    /\ IF audio_playback /\ MovieDef(mov).audio
                            /\ current_time' >= next_audio_frame_at
                       THEN /\ \/ current_audio_frame' >= Len(MovieDef(mov).audio_timecodes)
                               \/ SDLMovie_TimecodeToMilliseconds(
                                      mov, MovieDef(mov).audio_timecodes[current_audio_frame' + 1])
                                    >= current_time' + SDL_MOVIE_PLAYER_SOUND_PRELOAD_MS
                            /\ current_audio_frame' < Len(MovieDef(mov).audio_timecodes)
                                 => next_audio_frame_at' =
                                      SDLMovie_TimecodeToMilliseconds(
                                          mov, MovieDef(mov).audio_timecodes[current_audio_frame' + 1])
                            /\ (\E i \in 1 .. Len(call'.audio_decoded) :
                                   MovieDef(mov).audio_samples[call'.audio_decoded[i] + 1] > 0)
                                 => /\ audio_buffer'
                                    /\ output_audio_stream
                                         => call'.put > 0 /\ audio_buffer_count' = 0
                                    /\ ~output_audio_stream
                                         => call'.put = 0 /\ audio_buffer_count' > 0
                       ELSE /\ call'.audio_decoded = <<>>
                            /\ UNCHANGED <<next_audio_frame_at, audio_buffer,
                                           audio_buffer_count>>]_vars

C5_Witness ==
    /\ call.op = "update"
    /\ call.result = SDL_MOVIE_PLAYER_UPDATE_ERROR
    /\ call.env = "video_decode"
    /\ Len(call.audio_decoded) = 2 /\ Len(call.video_decoded) = 1
    /\ audio_buffer_count = 3
    /\ next_audio_frame_at = 100

\* C6: the first auto-delta advance after a resume adds to the clock the
\* wall-clock time elapsed since that resume, and nothing of the pause.
C6_ResumeExcludesPausedTime ==
    [][(call'.op = "update" /\ call'.arg < 0 /\ resumed_at # NotObserving
          /\ ~paused /\ ~finished)
         => current_time' = current_time + (ticks - ReadingOf(resumed_at))]_vars

C6_Witness ==
    /\ call.op = "update" /\ call.arg < 0
    /\ call.pause_len > 0
    /\ call.time_passed > 0
    /\ current_time = call.time_passed

\* C7: after every append the stored count is at most the capacity and no
\* sample was written at an index at or beyond the capacity.
C7_StagingBound ==
    /\ audio_buffer => audio_buffer_count <= audio_buffer_capacity
    /\ ~heap_overrun

\* C8 as stated: with a device of buffer size B attached, an allocated staging
\* buffer has capacity at least R*C + B.
C8_CapacityCoversDevice ==
    (audio_buffer /\ output_audio_stream /\ stream_state = "alive"
       /\ bound_audio_device # 0 /\ SDLMovie_CanPlaybackAudio(mov))
      => audio_buffer_capacity >=
           MovieDef(mov).freq * MovieDef(mov).channels
             + DeviceSampleFrames(bound_audio_device)

\* C8 amended: the capacity is fixed when the buffer is first allocated, to
\* R*C of the movie bound then plus the output buffer size recorded then; it
\* covers the buffer size of a device attached at that moment, and no later
\* call changes it.
C8_CapacityFixedAtAllocation ==
    [][/\ (~audio_buffer /\ audio_buffer')
            => /\ audio_buffer_capacity' =
                    MovieDef(mov).freq * MovieDef(mov).channels
                      + audio_output_samples_buffer_size
               /\ bound_audio_device # 0
                    => audio_buffer_capacity' >=
                         MovieDef(mov).freq * MovieDef(mov).channels
                           + DeviceSampleFrames(bound_audio_device)
       /\ (audio_buffer /\ call'.op # "free")
            => /\ audio_buffer'
               /\ audio_buffer_capacity' = audio_buffer_capacity]_vars

C8_Witness ==
    /\ call.op = "update"
    /\ audio_buffer
    /\ bound_audio_device = 1
    /\ mov = 1
    /\ audio_buffer_capacity = 7

\* C9: the player holds a stream only while that stream exists, and no call
\* ever hands a destroyed stream to SDL.
C9_NoDestroyedStreamHeld ==
    /\ output_audio_stream => stream_state = "alive"
    /\ ~stale_stream_touched

\* C10: an audio attach naming the default-device sentinel or made on a movie
\* without audio track, and a render-target attach whose format is not that of
\* the movie's live surface, fail and change nothing.
C10_RejectionsChangeNothing ==
    [][(\/ /\ call'.op = "attach_audio"
           /\ \/ call'.arg = SDL_AUDIO_DEVICE_DEFAULT_PLAYBACK
              \/ ~MovieDef(mov).audio
        \/ /\ call'.op = "attach_texture"
           /\ call'.arg # 0
           /\ call'.arg # MovieDef(mov).surface_format)
         => /\ call'.result = {"FAIL"}
            /\ Unchanged]_vars

C10_Witness ==
    /\ call.op = "attach_audio" /\ call.arg = 1
    /\ call.result = {"FAIL"}
    /\ ~MovieDef(mov).audio
    /\ output_audio_stream /\ bound_audio_device = 2
    /\ output_video_frame_texture # 0

\* C11: enabling or disabling a track kind changes the flag of that kind and
\* nothing else (no decode, staging buffer, clock, cursors and next-frame
\* times as before), and changes nothing at all when the movie has no track of
\* that kind; in every state a flag is set only if the movie has a playable
\* track of its kind.
C11_EnableTouchesOnlyItsFlag ==
    /\ [](check_player => /\ audio_playback => SDLMovie_CanPlaybackAudio(mov)
                          /\ video_playback => SDLMovie_CanPlaybackVideo(mov))
    /\ [][/\ call'.op = "enable_audio"
               => /\ NoDecodeIn(call')
                  /\ UNCHANGED <<paused, finished, video_playback, mov,
                                 last_frame_at_ticks, current_time, next_audio_frame_at,
                                 audio_buffer, audio_buffer_count, audio_buffer_capacity,
                                 bound_audio_device, output_audio_stream,
                                 audio_output_samples_buffer_size,
                                 audio_output_samples_buffer_ms, next_video_frame_at,
                                 current_video_frame_surface, output_video_frame_texture,
                                 movieVars, envVars>>
                  /\ audio_playback' = IF MovieDef(mov).audio THEN call'.arg = 1
                                       ELSE audio_playback
                  /\ ~MovieDef(mov).audio => ~audio_playback'
          /\ call'.op = "enable_video"
               => /\ NoDecodeIn(call')
                  /\ UNCHANGED <<paused, finished, audio_playback, mov,
                                 last_frame_at_ticks, current_time, next_audio_frame_at,
                                 audio_buffer, audio_buffer_count, audio_buffer_capacity,
                                 bound_audio_device, output_audio_stream,
                                 audio_output_samples_buffer_size,
                                 audio_output_samples_buffer_ms, next_video_frame_at,
                                 current_video_frame_surface, output_video_frame_texture,
                                 movieVars, envVars>>
                  /\ video_playback' = IF MovieDef(mov).video THEN call'.arg = 1
                                       ELSE video_playback
                  /\ ~MovieDef(mov).video => ~video_playback']_vars

C11_Witness ==
    /\ call.op = "enable_audio" /\ call.arg = 0
    /\ MovieDef(mov).audio /\ ~audio_playback
    /\ current_time > 0 /\ audio_buffer_count > 0
    /\ current_audio_frame > 0

\* the movie of the scenario: video frames at 0, 40 and 80 ms and none after
FramesAt0_40_80 ==
    /\ check_player
    /\ MovieDef(mov).video
    /\ MovieDef(mov).video_codec_delay = 0
    /\ [i \in 1 .. Len(MovieDef(mov).video_timecodes) |->
           SDLMovie_TimecodeToMilliseconds(mov, MovieDef(mov).video_timecodes[i])]
         = <<0, 40, 80>>

\* C12 as stated: of three advance(41) calls after a bind, the first decodes
\* the frame at 0, the second the frame at 40, the third the frame at 80 and
\* sets finished; finished is false after the first and the second call.
C12_OneFramePerCall ==
    [][(call'.op = "update" /\ call'.arg = 41 /\ FramesAt0_40_80)
         => /\ current_time = 0 => call'.video_decoded = <<0>> /\ ~finished'
            /\ current_time = 41 => call'.video_decoded = <<1>> /\ ~finished'
            /\ current_time = 82 => call'.video_decoded = <<2>> /\ finished']_vars

\* C12 amended: the first advance(41) after a bind decodes the frames at 0 and
\* 40, both due at 41, and leaves finished false with the frame at 80 next;
\* the second decodes the frame at 80, finds no next frame and sets finished;
\* the third is a no-op on the finished player.
C12_TwoCallsFinish ==
    [][(call'.op = "update" /\ call'.arg = 41 /\ FramesAt0_40_80)
         => /\ current_time = 0
                 => /\ call'.video_decoded = <<0, 1>>
                    /\ ~finished'
                    /\ next_video_frame_at' = 80
                    /\ current_time' = 41
            /\ current_time = 41
                 => /\ call'.video_decoded = <<2>>
                    /\ finished'
                    /\ current_time' = 82
            /\ current_time = 82
                 => /\ finished
                    /\ call'.result = SDL_MOVIE_PLAYER_UPDATE_NONE
                    /\ NoDecodeIn(call')
                    /\ Unchanged]_vars

C12_Witness ==
    /\ FramesAt0_40_80
    /\ call.op = "update" /\ call.arg = 41
    /\ call.result = SDL_MOVIE_PLAYER_UPDATE_NONE
    /\ current_time = 82 /\ finished
    /\ current_frame = 3

\* C13: an advance whose clock, after adding the delta, is short of
\* next_audio_frame_at issues no audio decode, leaves the staging buffer, the
\* audio cursor and next_audio_frame_at alone and does not report AUDIO; one
\* whose clock is short of next_video_frame_at issues no video decode,
\* publishes no picture, leaves next_video_frame_at and finished alone and
\* does not report VIDEO.
C13_GatedBranchDoesNothing ==
    [][(call'.op = "update" /\ call'.arg # 0 /\ ~paused /\ ~finished)
         => /\ current_time' < next_audio_frame_at
                 => /\ call'.audio_attempts = 0
                    /\ call'.audio_decoded = <<>>
                    /\ call'.put = 0
                    /\ "AUDIO" \notin call'.result
                    /\ UNCHANGED <<audio_buffer, audio_buffer_count,
                                   audio_buffer_capacity, next_audio_frame_at,
                                   current_audio_frame>>
            /\ current_time' < next_video_frame_at
                 => /\ call'.video_attempts = 0
                    /\ call'.video_decoded = <<>>
                    /\ ~call'.published /\ ~call'.texture_updated
                    /\ "VIDEO" \notin call'.result
                    /\ UNCHANGED <<next_video_frame_at, finished, current_frame,
                                   current_video_frame_surface>>]_vars

C13_Witness ==
    /\ call.op = "update" /\ call.arg = 41
    /\ call.result = SDL_MOVIE_PLAYER_UPDATE_VIDEO
    /\ audio_playback /\ SDLMovie_CanPlaybackAudio(mov)
    /\ current_time < next_audio_frame_at
    /\ SDLMovie_HasNextAudioFrame(mov, current_audio_frame)
    /\ Len(call.video_decoded) > 0

\* presentation time in milliseconds of the i-th indexed frame (from 0)
AudioFrameTime(i) ==
    (MovieDef(mov).audio_timecodes[i + 1] * MovieDef(mov).timecode_scale) \div NsPerMs

VideoFrameTime(i) ==
    (MovieDef(mov).video_timecodes[i + 1] * MovieDef(mov).timecode_scale) \div NsPerMs

\* C14: after an advance whose audio pass ran and which did not return ERROR,
\* every audio frame presented before current_time + 50 ms is behind the
\* audio cursor (decoded), and every frame the call decoded is presented
\* before that horizon.
C14_PreloadHorizon ==
    [][(call'.op = "update" /\ "AUDIO" \in call'.result)
         => /\ \A i \in 0 .. Len(MovieDef(mov).audio_timecodes) - 1 :
                 AudioFrameTime(i) < current_time' + SDL_MOVIE_PLAYER_SOUND_PRELOAD_MS
                   => i < current_audio_frame'
            /\ \A k \in 1 .. Len(call'.audio_decoded) :
                 /\ call'.audio_decoded[k] = current_audio_frame + k - 1
                 /\ AudioFrameTime(call'.audio_decoded[k])
                      < current_time' + SDL_MOVIE_PLAYER_SOUND_PRELOAD_MS
            /\ current_audio_frame' = current_audio_frame + Len(call'.audio_decoded)]_vars

C14_Witness ==
    /\ call.op = "update" /\ "AUDIO" \in call.result
    /\ Len(call.audio_decoded) = 2
    /\ SDLMovie_HasNextAudioFrame(mov, current_audio_frame)
    /\ AudioFrameTime(current_audio_frame - 1) > current_time
    /\ AudioFrameTime(current_audio_frame)
         >= current_time + SDL_MOVIE_PLAYER_SOUND_PRELOAD_MS

\* C15: after an advance whose video pass ran and which did not return ERROR,
\* every video frame presented at or before current_time is behind the video
\* cursor (decoded), every frame the call decoded is presented at or before
\* current_time, and when a next frame exists next_video_frame_at is its
\* presentation time, which lies after current_time.
C15_VideoCatchUp ==
    [][(call'.op = "update" /\ "VIDEO" \in call'.result)
         => /\ \A i \in 0 .. Len(MovieDef(mov).video_timecodes) - 1 :
                 VideoFrameTime(i) <= current_time' => i < current_frame'
            /\ \A k \in 1 .. Len(call'.video_decoded) :
                 /\ call'.video_decoded[k] = current_frame + k - 1
                 /\ VideoFrameTime(call'.video_decoded[k]) <= current_time'
            /\ current_frame' = current_frame + Len(call'.video_decoded)
            /\ current_frame' < Len(MovieDef(mov).video_timecodes)
                 => /\ next_video_frame_at' = VideoFrameTime(current_frame')
                    /\ next_video_frame_at' > current_time']_vars

C15_Witness ==
    /\ call.op = "update" /\ "VIDEO" \in call.result
    /\ Len(call.video_decoded) = 2
    /\ SDLMovie_HasNextVideoFrame(mov, current_frame)
    /\ next_video_frame_at > current_time

\* C16: finished goes from false to true only in an advance made while not
\* paused, whose video pass ran (video enabled, clock at or past
\* next_video_frame_at) without decode error and left no further video frame;
\* no other call, and no advance whose video pass did not run, sets it.
C16_FinishedOnlyByVideoExhaustion ==
    [][(~finished /\ finished')
         => /\ call'.op = "update"
            /\ call'.arg # 0
            /\ ~paused
            /\ video_playback /\ SDLMovie_CanPlaybackVideo(mov)
            /\ current_time' >= next_video_frame_at
            /\ "VIDEO" \in call'.result
            /\ call'.published
            /\ current_frame' >= Len(MovieDef(mov).video_timecodes)]_vars

C16_Witness ==
    /\ finished
    /\ call.op = "update" /\ "VIDEO" \in call.result
    /\ "AUDIO" \notin call.result
    /\ audio_playback
    /\ SDLMovie_HasNextAudioFrame(mov, current_audio_frame)
    /\ output_audio_stream

\* the audio track of the bound movie has been played to its end
AudioExhausted ==
    /\ check_player
    /\ SDLMovie_CanPlaybackAudio(mov)
    /\ Len(MovieDef(mov).audio_timecodes) > 0
    /\ ~SDLMovie_HasNextAudioFrame(mov, current_audio_frame)

\* C17 as stated: once the audio track is exhausted, an advance decodes no
\* audio frame and does not report AUDIO, and finished is set only when the
\* video track has no frame left.
C17_ExhaustedAudioNotReported ==
    [][(call'.op = "update" /\ AudioExhausted)
         => /\ call'.audio_attempts = 0
            /\ "AUDIO" \notin call'.result
            /\ (~finished /\ finished')
                 => current_frame' >= Len(MovieDef(mov).video_timecodes)]_vars

\* C17 amended: once the audio track is exhausted, an advance decodes no
\* audio frame, stages and hands over nothing and leaves the audio cursor and
\* next_audio_frame_at as they are, but it still reports AUDIO whenever audio
\* is enabled and the clock is at or past next_audio_frame_at, which the
\* exhausted track no longer moves; finished is set only when the video track
\* has no frame left.
C17_ExhaustedAudioDecodesNothing ==
    [][(call'.op = "update" /\ AudioExhausted)
         => /\ call'.audio_attempts = 0
            /\ call'.audio_decoded = <<>>
            /\ call'.put = 0
            /\ UNCHANGED <<audio_buffer, audio_buffer_count, audio_buffer_capacity,
                           current_audio_frame, next_audio_frame_at>>
            /\ call'.result # SDL_MOVIE_PLAYER_UPDATE_ERROR
                 => ("AUDIO" \in call'.result
                       <=> /\ call'.arg # 0 /\ ~paused /\ ~finished
                           /\ audio_playback
                           /\ current_time' >= next_audio_frame_at)
            /\ (~finished /\ finished')
                 => current_frame' >= Len(MovieDef(mov).video_timecodes)]_vars

C17_Witness ==
    /\ AudioExhausted
    /\ call.op = "update" /\ call.arg = 41
    /\ "AUDIO" \in call.result
    /\ call.audio_decoded = <<>>
    /\ current_time > next_audio_frame_at
    /\ SDLMovie_HasNextVideoFrame(mov, current_frame)
    /\ video_playback
    /\ ~finished

\* samples of the frames decoded by a call, from its k-th decoded frame on
RECURSIVE SamplesFrom(_, _)
SamplesFrom(decoded, k) ==
    IF k > Len(decoded) THEN 0
    ELSE MovieDef(mov).audio_samples[decoded[k] + 1] + SamplesFrom(decoded, k + 1)

\* C18: an advance that decoded at least one audio frame with samples, all
\* allocations succeeding: with an output stream held, all the decoded samples
\* were handed to the stream and the poll operation exposes a count of 0; with
\* no stream held, nothing was handed over and the poll operation exposes the
\* previous count plus the decoded samples, or, when that sum does not fit the
\* capacity, the samples of the last frames decoded, counted from 0.
C18_StreamDrainsStaging ==
    [][(call'.op = "update" /\ call'.env # "alloc"
          /\ SamplesFrom(call'.audio_decoded, 1) > 0)
         => IF output_audio_stream
            THEN /\ call'.put = SamplesFrom(call'.audio_decoded, 1)
                 /\ SDLMovie_GetPlayerAvailableAudioSamples'
                      = [samples |-> TRUE, count |-> {0}]
            ELSE /\ call'.put = 0
                 /\ SDLMovie_GetPlayerAvailableAudioSamples'.samples
                 /\ \/ SDLMovie_GetPlayerAvailableAudioSamples'.count
                          = {audio_buffer_count + SamplesFrom(call'.audio_decoded, 1)}
                    \/ /\ audio_buffer_count + SamplesFrom(call'.audio_decoded, 1)
                            > audio_buffer_capacity'
                       /\ \E k \in 1 .. Len(call'.audio_decoded) :
                            SDLMovie_GetPlayerAvailableAudioSamples'.count
                              = {SamplesFrom(call'.audio_decoded, k)}]_vars

C18_Witness ==
    /\ call.op = "update" /\ call.env = "ok"
    /\ output_audio_stream /\ stream_state = "alive"
    /\ call.put = 3 /\ Len(call.audio_decoded) = 2
    /\ current_audio_frame = 2
    /\ SDLMovie_GetPlayerAvailableAudioSamples = [samples |-> TRUE, count |-> {0}]

\* codec delay of a track of the bound movie in milliseconds, 0 without track
AudioDelayMs ==
    IF MovieDef(mov).audio
    THEN (MovieDef(mov).audio_codec_delay * MovieDef(mov).timecode_scale) \div NsPerMs
    ELSE 0

VideoDelayMs ==
    IF MovieDef(mov).video
    THEN (MovieDef(mov).video_codec_delay * MovieDef(mov).timecode_scale) \div NsPerMs
    ELSE 0

\* C19: right after a player is created on a movie or bound to one, the clock
\* is 0, finished is false, both cursors are at the first frame and
\* next_audio_frame_at / next_video_frame_at are the track's codec delay in
\* milliseconds (0 without track or delay); no advance decodes audio while
\* the clock is short of the audio codec delay.
C19_BindAppliesCodecDelay ==
    /\ [](call.op \in {"create", "bind"}
            => /\ current_time = 0
               /\ ~finished
               /\ current_frame = 0 /\ current_audio_frame = 0
               /\ next_audio_frame_at = AudioDelayMs
               /\ next_video_frame_at = VideoDelayMs)
    /\ [][(call'.op = "update" /\ current_time' < AudioDelayMs)
            => /\ call'.audio_attempts = 0
               /\ "AUDIO" \notin call'.result
               /\ current_audio_frame' = 0]_vars

C19_Witness ==
    /\ call.op = "update" /\ call.arg < 0
    /\ AudioDelayMs = 20
    /\ MovieDef(mov).audio_codec_delay = 20
    /\ current_time = 0
    /\ call.result = SDL_MOVIE_PLAYER_UPDATE_VIDEO
    /\ call.video_decoded = <<0>>
    /\ next_audio_frame_at = 20
    /\ audio_playback

\* C20: binding a movie leaves the player neither finished nor paused, with
\* the clock at 0, whatever state it was in, so that an advance(d), d > 0,
\* made next takes the clock from 0 to d.
C20_RebindLeavesPlaying ==
    [][/\ call'.op = "bind"
            => /\ ~finished' /\ ~paused'
               /\ current_time' = 0
       /\ (call.op = "bind" /\ call'.op = "update" /\ call'.arg > 0)
            => current_time' = call'.arg]_vars

\* C21: whenever the player is paused and holds an output stream, that stream
\* is not bound to a device, whatever the order of pause, resume, attach and
\* detach calls; and a resume whose SDL calls succeed leaves the held stream
\* bound to the device recorded at attach time.
C21_PausedStreamUnbound ==
    /\ []((check_player /\ paused /\ output_audio_stream /\ stream_state = "alive")
            => stream_device = 0)
    /\ [][(call'.op = "resume" /\ call'.env = "ok"
             /\ output_audio_stream /\ stream_state = "alive")
            => stream_device' = bound_audio_device]_vars

\* the first n frame indexes in order
FirstFrames(n) == [i \in 1 .. n |-> i - 1]

\* C22: the frames of a track decoded since the last bind are exactly the
\* frames before the track cursor, each once and in index order; no call
\* other than a bind moves a cursor backwards; and in the decode calls one
\* advance issues no video decode comes before an audio decode.
C22_DecodeOnceInOrder ==
    /\ [](check_player
            => /\ decoded_since_bind.audio = FirstFrames(current_audio_frame)
               /\ decoded_since_bind.video = FirstFrames(current_frame))
    /\ [][/\ call'.op \notin {"bind", "free"}
               => /\ current_audio_frame' >= current_audio_frame
                  /\ current_frame' >= current_frame
          /\ call'.op = "update"
               => /\ Len(call'.decode_order)
                       = call'.audio_attempts + call'.video_attempts
                  /\ \A i, j \in 1 .. Len(call'.decode_order) :
                       (i < j /\ call'.decode_order[i] = "VIDEO")
                         => call'.decode_order[j] = "VIDEO"]_vars

C22_Witness ==
    /\ call.op = "update"
    /\ call.decode_order = <<"AUDIO", "AUDIO", "VIDEO", "VIDEO">>
    /\ decoded_since_bind = [audio |-> <<0, 1>>, video |-> <<0, 1>>]
    /\ current_video_frame_surface # 0
    /\ output_audio_stream

\* C23: on a movie with a video track, if the player is never paused and
\* video playback is never disabled, finished eventually becomes true under
\* repeated advances; an advance issues at most as many decodes as the
\* tracks have frames left; and an advance made with video playback disabled
\* or on a movie without video track never sets finished.
C23_PlaybackReachesFinished ==
    /\ ([](SDLMovie_CanPlaybackVideo(mov) /\ ~paused /\ video_playback))
          => <>finished
    /\ [][call'.op = "update"
            => /\ call'.video_attempts
                    <= Len(MovieDef(mov).video_timecodes) - current_frame
               /\ call'.audio_attempts
                    <= Len(MovieDef(mov).audio_timecodes) - current_audio_frame
               /\ (~video_playback \/ ~SDLMovie_CanPlaybackVideo(mov))
                    => finished' = finished]_vars
    /\ []((check_player /\ ~SDLMovie_CanPlaybackVideo(mov)) => ~finished)

C23_Witness ==
    /\ finished /\ ~paused /\ video_playback
    /\ call.op = "update" /\ call.arg = 41
    /\ "VIDEO" \in call.result
    /\ current_time = 123
    /\ decoded_since_bind.video = <<0, 1>>

====
